---- MODULE Spec2Model ----
(***************************************************************************)
(* Connected-component labelling of CCUtil.hpp:                            *)
(* ConnectComponentFinder::operator() as a state machine, one action per   *)
(* loop test or loop body of the call, with the policies it is built from  *)
(* (BinaryPredicate, SquareBracketAccess, Quick2DSizeT, FourConnect,       *)
(* EightConnect, IsPixelPosValid) as operators.                            *)
(***************************************************************************)
EXTENDS Integers, Sequences, FiniteSets

(* Largest number of rows / columns of the images that are explored. *)
MaxRows == 2
MaxCols == 3

VARIABLES
    size,          \* the argument `size`: <<rows, cols>>
    img,           \* the argument `img`: pixel value at each <<row, col>>
    imgDT,         \* template parameter ImgDT
    connectivity,  \* template parameter Connectivity
    pc,            \* position of the call in operator()
    i, j,          \* the scan's loop variables
    data,          \* labelStorage.data, the flat vector of Quick2DSizeT
    currentLabel,
    myQueue,
    enteredQueue,
    front,         \* the coordinate popped last
    neighbour,     \* the vector GetNeighbour returned for front
    k,             \* position of the range-for in neighbour (1-based)
    result,        \* the returned vector of sets, <<>> until the return
    error,         \* what() of the exception thrown, "none" if none
    \* history of the call, for the properties below
    imgReads,      \* coordinates handed to access(img, ., .)
    lblTouched,    \* coordinates handed to labelStorage(., .)
    pushed,        \* every coordinate pushed onto myQueue, in order
    seeds,         \* the coordinates pushed by the scan itself, in order
    predLog        \* every call of pred: its argument and its outcome

vars == <<size, img, imgDT, connectivity, pc, i, j, data, currentLabel, myQueue,
          enteredQueue, front, neighbour, k, result, error,
          imgReads, lblTouched, pushed, seeds, predLog>>

-----------------------------------------------------------------------------
(* Quick2DSizeT::NOLABEL = std::numeric_limits<int>::min() *)
NOLABEL == -(2^30) - (2^30)

(* ConnectComponentFinder::labelStart *)
labelStart == NOLABEL + 1

ImgDTs == {"bool", "char", "int", "double"}

Connectivities == {"FourConnect", "EightConnect"}

(* The pixel values an image of each data type is drawn from. *)
PixelVals(dt) == IF dt = "bool" THEN {FALSE, TRUE} ELSE {0, 1}

Coords(sz) == {<<r, c>> : r \in 0 .. sz[1] - 1, c \in 0 .. sz[2] - 1}

-----------------------------------------------------------------------------
(* BinaryPredicate whose primary template returns false (background)        *)
(* instead of throwing.                                                     *)
BinaryPredicateNoThrow(dt, val) ==
    CASE dt = "bool" -> [throws |-> FALSE, ret |-> val]
      [] dt = "char" -> [throws |-> FALSE, ret |-> (val # 0)]
      [] OTHER       -> [throws |-> FALSE, ret |-> FALSE]

(* BinaryPredicate<ImgDT>::operator(): the primary template throws, the     *)
(* specialisations for bool and char convert the value to bool.             *)
BinaryPredicate(dt, val) ==
    CASE dt = "bool" -> [throws |-> FALSE, ret |-> val]
      [] dt = "char" -> [throws |-> FALSE, ret |-> (val # 0)]
      [] OTHER       -> [throws |-> TRUE,  ret |-> FALSE]

(* SquareBracketAccess::operator(): img[row][col]. It checks nothing; a     *)
(* read outside the image is undefined and may yield any pixel value.       *)
SquareBracketAccess(image, dt, row, col) ==
    IF <<row, col>> \in DOMAIN image THEN {image[<<row, col>>]} ELSE PixelVals(dt)

(* Index into data of Quick2DSizeT::operator()(row, col). *)
LabelIndex(row, col, cols) == row * cols + col

(* Quick2DSizeT::operator() used as a read: data[row * cols + col]. An      *)
(* index outside the vector is undefined: the slot read may hold anything.  *)
LabelRead(d, cols, cur, pos) ==
    LET idx == LabelIndex(pos[1], pos[2], cols)
    IN  IF idx >= 0 /\ idx < Len(d) THEN {d[idx + 1]} ELSE {NOLABEL, cur}

(* Quick2DSizeT::operator() used as a write. A write outside the vector     *)
(* does not change the vector itself.                                       *)
LabelWrite(d, cols, pos, lbl) ==
    LET idx == LabelIndex(pos[1], pos[2], cols)
    IN  IF idx >= 0 /\ idx < Len(d) THEN [d EXCEPT ![idx + 1] = lbl] ELSE d

(* Quick2DSizeT constructor: data.resize(rows * cols, NOLABEL) *)
Quick2DSizeT(rows, cols) == [x \in 1 .. rows * cols |-> NOLABEL]

FourConnect(pos) ==
    << <<pos[1] + 1, pos[2]>>, <<pos[1], pos[2] + 1>>,
       <<pos[1] - 1, pos[2]>>, <<pos[1], pos[2] - 1>> >>

(* The offsets the two nested loops of EightConnect::GetNeighbour go       *)
(* through, in their order, and the test that skips one of them.            *)
EightOffsets ==
    << <<-1, -1>>, <<-1, 0>>, <<-1, 1>>, <<0, -1>>, <<0, 0>>, <<0, 1>>,
       <<1, -1>>, <<1, 0>>, <<1, 1>> >>

(* EightSkip with the test `i == j` alone: the diagonal offsets (-1, -1)     *)
(* and (1, 1) are skipped as well.                                          *)
EightSkipDiagonal(di, dj) == di = dj

EightSkip(di, dj) == di = dj /\ di = 0

RECURSIVE EightCollect(_, _, _)
EightCollect(pos, n, acc) ==
    IF n > Len(EightOffsets) THEN acc
    ELSE LET o == EightOffsets[n]
         IN  EightCollect(pos, n + 1,
                 IF EightSkip(o[1], o[2]) THEN acc
                 ELSE Append(acc, <<pos[1] + o[1], pos[2] + o[2]>>))

EightConnect(pos) == EightCollect(pos, 1, <<>>)

GetNeighbour(conn, pos) ==
    IF conn = "FourConnect" THEN FourConnect(pos) ELSE EightConnect(pos)

(* IsPixelPosValid without the test `pos.second >= 0`. *)
IsPixelPosValidNoLowerCol(sz, pos) ==
    pos[1] >= 0 /\ pos[1] < sz[1] /\ pos[2] < sz[2]

IsPixelPosValid(sz, pos) ==
    pos[1] >= 0 /\ pos[1] < sz[1] /\ pos[2] >= 0 /\ pos[2] < sz[2]

(* InvalidSize testing the rows alone. *)
InvalidSizeRowsOnly(sz) == sz[1] < 1

(* The test of line 124. *)
InvalidSize(sz) == sz[1] < 1 \/ sz[2] < 1

(* SeedUnlabeled without the test: every scanned foreground pixel is a seed. *)
SeedAlways(lbl) == TRUE

(* The test of line 147: the scanned foreground pixel has no label. *)
SeedUnlabeled(lbl) == lbl = NOLABEL

(* ShouldPush without the NOLABEL test: every foreground neighbour is pushed. *)
ShouldPushLabelled(isFg, lbl) == isFg

(* The test of lines 169-170 on a valid neighbour. *)
ShouldPush(isFg, lbl) == isFg /\ lbl = NOLABEL

(* NextLabel without the enteredQueue flag: every foreground pixel of the    *)
(* scan moves the counter.                                                  *)
NextLabelAlways(cur, entered) == cur + 1

(* Lines 180-182. *)
NextLabel(cur, entered) == IF entered THEN cur + 1 ELSE cur

(* NumOfCC counting from NOLABEL instead of labelStart. *)
NumOfCCFromNoLabel(cur) == cur - NOLABEL

(* Line 189. *)
NumOfCC(cur) == cur - labelStart

(* BuildResult inserting IntPair{j, i} instead of IntPair{i, j}. *)
BuildResultSwapped(d, sz, numOfCC) ==
    [n \in 1 .. numOfCC |->
        {<<pos[2], pos[1]>> : pos \in
            {q \in Coords(sz) :
                LET lbl == d[q[1] * sz[2] + q[2] + 1]
                IN  lbl # NOLABEL /\ lbl - (NOLABEL + 1) = n - 1}}]

(* Lines 190-203: result.resize(numOfCC), then every labelled coordinate    *)
(* is inserted into the set at its label's index.                           *)
BuildResult(d, sz, numOfCC) ==
    [n \in 1 .. numOfCC |->
        {pos \in Coords(sz) :
            LET lbl == d[LabelIndex(pos[1], pos[2], sz[2]) + 1]
            IN  lbl # NOLABEL /\ lbl - labelStart = n - 1}]

-----------------------------------------------------------------------------
(* The sizes explored: zero and negative dimensions are among them. *)
Sizes == (-1 .. MaxRows) \X (-1 .. MaxCols)

Init ==
    /\ size \in Sizes
    /\ imgDT \in ImgDTs
    /\ connectivity \in Connectivities
    /\ img \in [Coords(size) -> PixelVals(imgDT)]
    /\ pc = "start"
    /\ i = 0
    /\ j = 0
    /\ data = <<>>
    /\ currentLabel = labelStart
    /\ myQueue = <<>>
    /\ enteredQueue = FALSE
    /\ front = <<0, 0>>
    /\ neighbour = <<>>
    /\ k = 1
    /\ result = <<>>
    /\ error = "none"
    /\ imgReads = {}
    /\ lblTouched = {}
    /\ pushed = <<>>
    /\ seeds = <<>>
    /\ predLog = <<>>

inputs == <<size, img, imgDT, connectivity>>

(* Lines 124-126: throw std::runtime_error{"invalid size"}. *)
ThrowInvalidSize ==
    /\ pc = "start"
    /\ InvalidSize(size)
    /\ pc' = "error"
    /\ error' = "invalid size"
    /\ UNCHANGED <<inputs, i, j, data, currentLabel, myQueue, enteredQueue, front,
                   neighbour, k, result, imgReads, lblTouched, pushed, seeds, predLog>>

(* Lines 128-139: the label grid, the label counter, the queue, i = 0. *)
Allocate ==
    /\ pc = "start"
    /\ ~InvalidSize(size)
    /\ data' = Quick2DSizeT(size[1], size[2])
    /\ currentLabel' = labelStart
    /\ myQueue' = <<>>
    /\ i' = 0
    /\ pc' = "outer"
    /\ UNCHANGED <<inputs, j, enteredQueue, front, neighbour, k, result, error,
                   imgReads, lblTouched, pushed, seeds, predLog>>

(* Line 139: the test of the outer loop; line 140: j = 0. *)
OuterTest ==
    /\ pc = "outer"
    /\ IF i < size[1]
       THEN j' = 0 /\ pc' = "inner"
       ELSE j' = j /\ pc' = "collect"
    /\ UNCHANGED <<inputs, i, data, currentLabel, myQueue, enteredQueue, front,
                   neighbour, k, result, error, imgReads, lblTouched, pushed, seeds,
                   predLog>>

(* Line 140: the inner loop ends; line 139: ++i. *)
InnerExit ==
    /\ pc = "inner"
    /\ ~(j < size[2])
    /\ i' = i + 1
    /\ pc' = "outer"
    /\ UNCHANGED <<inputs, j, data, currentLabel, myQueue, enteredQueue, front,
                   neighbour, k, result, error, imgReads, lblTouched, pushed, seeds,
                   predLog>>

(* Lines 141-154: the pixel (i, j) is read and classified; a foreground     *)
(* pixel without a label is pushed and labelled. A background pixel ends    *)
(* the loop body (++j).                                                     *)
ScanPixel ==
    /\ pc = "inner"
    /\ j < size[2]
    /\ \E pixelVal \in SquareBracketAccess(img, imgDT, i, j) :
         LET p == BinaryPredicate(imgDT, pixelVal)
         IN  /\ imgReads' = imgReads \cup {<<i, j>>}
             /\ predLog' = Append(predLog, [arg |-> pixelVal, out |-> p])
             /\ IF p.throws
                THEN /\ pc' = "error"
                     /\ error' = "unsupported type"
                     /\ UNCHANGED <<j, data, myQueue, enteredQueue, lblTouched,
                                    pushed, seeds>>
                ELSE IF p.ret
                THEN /\ lblTouched' = lblTouched \cup {<<i, j>>}
                     /\ \E lbl \in LabelRead(data, size[2], currentLabel, <<i, j>>) :
                          IF SeedUnlabeled(lbl)
                          THEN /\ myQueue' = Append(myQueue, <<i, j>>)
                               /\ data' = LabelWrite(data, size[2], <<i, j>>, currentLabel)
                               /\ enteredQueue' = TRUE
                               /\ pushed' = Append(pushed, <<i, j>>)
                               /\ seeds' = Append(seeds, <<i, j>>)
                          ELSE /\ enteredQueue' = FALSE
                               /\ UNCHANGED <<myQueue, data, pushed, seeds>>
                     /\ pc' = "while"
                     /\ UNCHANGED <<j, error>>
                ELSE /\ enteredQueue' = FALSE
                     /\ j' = j + 1
                     /\ pc' = "inner"
                     /\ UNCHANGED <<data, myQueue, lblTouched, pushed, seeds, error>>
    /\ UNCHANGED <<inputs, i, currentLabel, front, neighbour, k, result>>

(* Lines 157-163: the queue is not empty; its front is popped and its       *)
(* neighbours are generated.                                                *)
PopFront ==
    /\ pc = "while"
    /\ myQueue # <<>>
    /\ front' = Head(myQueue)
    /\ myQueue' = Tail(myQueue)
    /\ neighbour' = GetNeighbour(connectivity, Head(myQueue))
    /\ k' = 1
    /\ pc' = "for"
    /\ UNCHANGED <<inputs, i, j, data, currentLabel, enteredQueue, result, error,
                   imgReads, lblTouched, pushed, seeds, predLog>>

(* Lines 164-177: one pass of the loop over the neighbours. *)
VisitNeighbour ==
    /\ pc = "for"
    /\ k <= Len(neighbour)
    /\ LET pixelPos == neighbour[k]
       IN  IF IsPixelPosValid(size, pixelPos)
           THEN \E neighbourPixelVal \in
                      SquareBracketAccess(img, imgDT, pixelPos[1], pixelPos[2]) :
                  LET p == BinaryPredicate(imgDT, neighbourPixelVal)
                  IN  /\ imgReads' = imgReads \cup {pixelPos}
                      /\ predLog' = Append(predLog, [arg |-> neighbourPixelVal, out |-> p])
                      /\ IF p.throws
                         THEN /\ pc' = "error"
                              /\ error' = "unsupported type"
                              /\ UNCHANGED <<k, data, myQueue, lblTouched, pushed>>
                         ELSE /\ error' = error
                              /\ k' = k + 1
                              /\ pc' = IF k = Len(neighbour) THEN "while" ELSE "for"
                              /\ IF p.ret
                                 THEN /\ lblTouched' = lblTouched \cup {pixelPos}
                                      /\ \E lbl \in LabelRead(data, size[2], currentLabel,
                                                              pixelPos) :
                                           IF ShouldPush(p.ret, lbl)
                                           THEN /\ myQueue' = Append(myQueue, pixelPos)
                                                /\ data' = LabelWrite(data, size[2],
                                                                      pixelPos, currentLabel)
                                                /\ pushed' = Append(pushed, pixelPos)
                                           ELSE UNCHANGED <<myQueue, data, pushed>>
                                 ELSE UNCHANGED <<myQueue, data, pushed, lblTouched>>
           ELSE /\ k' = k + 1
                /\ pc' = IF k = Len(neighbour) THEN "while" ELSE "for"
                /\ UNCHANGED <<data, myQueue, error, imgReads, lblTouched, pushed,
                               predLog>>
    /\ UNCHANGED <<inputs, i, j, currentLabel, enteredQueue, front, neighbour,
                   result, seeds>>

(* Lines 157, 180-183, 140: the queue is empty; the label counter moves on  *)
(* if this pixel was a seed; ++j.                                           *)
EndFill ==
    /\ pc = "while"
    /\ myQueue = <<>>
    /\ currentLabel' = NextLabel(currentLabel, enteredQueue)
    /\ j' = j + 1
    /\ pc' = "inner"
    /\ UNCHANGED <<inputs, i, data, myQueue, enteredQueue, front, neighbour, k,
                   result, error, imgReads, lblTouched, pushed, seeds, predLog>>

(* Lines 188-203: the result is built from the label grid and returned. *)
Collect ==
    /\ pc = "collect"
    /\ result' = BuildResult(data, size, NumOfCC(currentLabel))
    /\ lblTouched' = lblTouched \cup Coords(size)
    /\ pc' = "done"
    /\ UNCHANGED <<inputs, i, j, data, currentLabel, myQueue, enteredQueue, front,
                   neighbour, k, error, imgReads, pushed, seeds, predLog>>

Next ==
    \/ ThrowInvalidSize
    \/ Allocate
    \/ OuterTest
    \/ InnerExit
    \/ ScanPixel
    \/ PopFront
    \/ VisitNeighbour
    \/ EndFill
    \/ Collect

Spec == Init /\ [][Next]_vars

-----------------------------------------------------------------------------
(* What the properties are stated in: the foreground of the image, and     *)
(* adjacency and reachability as the connectivity policies define them,     *)
(* stated independently of GetNeighbour and of the traversal.               *)

ValidSize == size[1] >= 1 /\ size[2] >= 1

Supported == imgDT \in {"bool", "char"}

IsForegroundValue(val) == IF imgDT = "bool" THEN val = TRUE ELSE val # 0

Foreground == {pos \in Coords(size) : IsForegroundValue(img[pos])}

Abs(x) == IF x < 0 THEN -x ELSE x

Adjacent(p, q) ==
    LET dr == Abs(p[1] - q[1])
        dc == Abs(p[2] - q[2])
    IN  IF connectivity = "FourConnect"
        THEN dr + dc = 1
        ELSE p # q /\ dr <= 1 /\ dc <= 1

RECURSIVE Closure(_)
Closure(S) ==
    LET T == S \cup {q \in Foreground : \E s \in S : Adjacent(s, q)}
    IN  IF T = S THEN S ELSE Closure(T)

(* The foreground coordinates joined to p by a path of foreground           *)
(* coordinates whose consecutive elements are adjacent.                     *)
Reach(p) == Closure({p})

LabelOf(pos) == data[LabelIndex(pos[1], pos[2], size[2]) + 1]

RowMajor(pos) == pos[1] * size[2] + pos[2]

MinRowMajor(S) == CHOOSE p \in S : \A q \in S : RowMajor(p) <= RowMajor(q)

Range(seq) == {seq[n] : n \in DOMAIN seq}

NoDuplicates(seq) == \A m, n \in DOMAIN seq : m # n => seq[m] # seq[n]

Returned == pc = "done"

-----------------------------------------------------------------------------
(* C1 (maximality): in the returned result two foreground coordinates are  *)
(* in the same component if and only if a path of foreground coordinates,   *)
(* consecutive ones adjacent under the configured connectivity, joins them. *)
C1_Maximality ==
    Returned =>
        \A p \in Foreground :
            {q \in Foreground : \E n \in DOMAIN result : p \in result[n] /\ q \in result[n]}
                = Reach(p)

(* A returned result with two components, one of them of three or more      *)
(* coordinates, some of them diagonal neighbours.                           *)
C1_Witness ==
    /\ Returned
    /\ Len(result) >= 2
    /\ \E n \in DOMAIN result : Cardinality(result[n]) >= 3
    /\ \E p, q \in Foreground : Abs(p[1] - q[1]) = 1 /\ Abs(p[2] - q[2]) = 1

(* C2 (partition): the union of the returned components is exactly the      *)
(* foreground (no background coordinate is in any component) and the        *)
(* components are pairwise disjoint.                                        *)
C2_Partition ==
    Returned =>
        /\ UNION Range(result) = Foreground
        /\ \A m, n \in DOMAIN result : m # n => result[m] \cap result[n] = {}

(* A returned result of two or more components over an image that has      *)
(* both background pixels and a background neighbour of a foreground pixel. *)
C2_Witness ==
    /\ Returned
    /\ Len(result) >= 2
    /\ \E p \in Foreground : \E q \in Coords(size) \ Foreground :
           Abs(p[1] - q[1]) + Abs(p[2] - q[2]) = 1

(* C3 (dense labels in discovery order): the result has one entry per       *)
(* connected component, none empty; entry n holds the n-th seed of the      *)
(* scan; the row-major-smallest coordinates of the entries increase         *)
(* strictly; an all-background image returns no component.                  *)
C3_DenseOrdered ==
    Returned =>
        /\ Len(result) = Cardinality({Reach(p) : p \in Foreground})
        /\ Len(result) = Len(seeds)
        /\ \A n \in DOMAIN result :
              /\ result[n] # {}
              /\ seeds[n] \in result[n]
              /\ seeds[n] = MinRowMajor(result[n])
        /\ \A m, n \in DOMAIN result :
              m < n => RowMajor(MinRowMajor(result[m])) < RowMajor(MinRowMajor(result[n]))
        /\ (Foreground = {} => result = <<>>)

(* A returned result of three components. *)
C3_Witness ==
    /\ Returned
    /\ Len(result) = 3
    /\ Len(seeds) = 3

(* C4 (invalid dimensions): with rows < 1 or cols < 1 the call throws       *)
(* "invalid size" before the label grid exists and before any pixel is      *)
(* read or classified, and returns nothing; with valid dimensions that      *)
(* error is never raised.                                                   *)
C4_InvalidDimension ==
    /\ ~ValidSize =>
          /\ pc \in {"start", "error"}
          /\ (pc = "error" => error = "invalid size")
          /\ data = <<>>
          /\ imgReads = {}
          /\ lblTouched = {}
          /\ predLog = <<>>
          /\ result = <<>>
    /\ ValidSize => error # "invalid size"

(* The call has thrown on a size whose rows are valid and whose columns     *)
(* are not.                                                                 *)
C4_Witness ==
    /\ pc = "error"
    /\ error = "invalid size"
    /\ size[1] >= 1
    /\ size[2] < 1

(* C5 (unsupported pixel type): with a pixel type the classifier cannot     *)
(* classify, a call on valid dimensions ends in the error "unsupported      *)
(* type" at the first classification: it never returns, builds no           *)
(* component, and labels or queues no pixel.                                *)
C5_UnsupportedAborts ==
    (~Supported /\ ValidSize) =>
        /\ pc \in {"start", "outer", "inner", "error"}
        /\ (pc = "error" => error = "unsupported type")
        /\ (predLog # <<>> => pc = "error")
        /\ Len(predLog) <= 1
        /\ result = <<>>
        /\ pushed = <<>>
        /\ \A n \in DOMAIN data : data[n] = NOLABEL

(* The call has thrown on an int image of several pixels whose first pixel  *)
(* is nonzero.                                                              *)
C5_Witness ==
    /\ pc = "error"
    /\ error = "unsupported type"
    /\ imgDT = "int"
    /\ Cardinality(Coords(size)) > 1
    /\ img[<<0, 0>>] = 1

(* C6 (built-in classifier): on bool, char and int pixels every call of the *)
(* classifier returns, without throwing, foreground exactly for true /      *)
(* nonzero.                                                                 *)
C6_ClassifierTotal ==
    imgDT \in {"bool", "char", "int"} =>
        \A n \in DOMAIN predLog :
            /\ ~predLog[n].out.throws
            /\ predLog[n].out.ret = IsForegroundValue(predLog[n].arg)

(* C7 (enqueue at most once): no coordinate is pushed twice; every queued   *)
(* coordinate is a foreground coordinate of the grid that already holds the *)
(* current label; the queue holds no duplicate; and a push happens only on  *)
(* a slot holding NOLABEL, which gets the current label in the same step.   *)
C7_QueueState ==
    /\ NoDuplicates(pushed)
    /\ NoDuplicates(myQueue)
    /\ \A n \in DOMAIN myQueue :
          /\ myQueue[n] \in Coords(size)
          /\ myQueue[n] \in Foreground
          /\ LabelOf(myQueue[n]) = currentLabel

C7_PushStep ==
    pushed' # pushed =>
        LET pos == pushed'[Len(pushed')]
        IN  /\ pushed' = Append(pushed, pos)
            /\ myQueue' = Append(myQueue, pos)
            /\ LabelOf(pos) = NOLABEL
            /\ data' = [data EXCEPT ![LabelIndex(pos[1], pos[2], size[2]) + 1] = currentLabel]

C7_EnqueueOnce == []C7_QueueState /\ [][C7_PushStep]_vars

(* The queue holds two coordinates while a third one's neighbours are       *)
(* visited.                                                                 *)
C7_Witness ==
    /\ pc = "for"
    /\ Len(myQueue) >= 2
    /\ Len(pushed) >= 3

(* C8 (component lifetime): a slot holding a real label never changes; a    *)
(* slot that is set gets the current label, the label of the latest seed,   *)
(* and the current label never decreases, so the coordinates of a label     *)
(* whose flood fill has ended stay the same.                                *)
C8_LabelStep ==
    /\ currentLabel' >= currentLabel
    /\ \A n \in DOMAIN data :
          /\ n \in DOMAIN data'
          /\ (data[n] # NOLABEL => data'[n] = data[n])
          /\ (data'[n] # data[n] =>
                /\ data'[n] = currentLabel
                /\ currentLabel' = currentLabel
                /\ currentLabel - labelStart = Len(seeds') - 1)
          /\ data[n] # NOLABEL => data[n] <= currentLabel

C8_Lifetime == [][C8_LabelStep]_vars

(* The second flood fill has labelled two coordinates while an earlier      *)
(* component of two coordinates exists.                                     *)
C8_Witness ==
    /\ currentLabel = labelStart + 1
    /\ Cardinality({n \in DOMAIN data : data[n] = labelStart}) >= 2
    /\ Cardinality({n \in DOMAIN data : data[n] = labelStart + 1}) >= 2

(* C9 (drain before resuming): at the loop tests of the scan the queue is   *)
(* empty and the labels in the grid are exactly labelStart .. currentLabel  *)
(* - 1, one per seed; during a flood fill the counter still is the number   *)
(* of finished seeds; i and j change only on an empty queue; the counter    *)
(* moves by one, on an empty queue, after a seed.                           *)
C9_ScanState ==
    /\ pc \in {"outer", "inner", "collect", "done"} =>
          /\ myQueue = <<>>
          /\ Range(data) \ {NOLABEL} = labelStart .. currentLabel - 1
          /\ currentLabel - labelStart = Len(seeds)
    /\ pc \in {"while", "for"} =>
          currentLabel - labelStart = Len(seeds) - (IF enteredQueue THEN 1 ELSE 0)

C9_ScanStep ==
    /\ (i' # i \/ j' # j) => myQueue = <<>> /\ myQueue' = <<>>
    /\ currentLabel' # currentLabel =>
          /\ currentLabel' = currentLabel + 1
          /\ myQueue = <<>>
          /\ enteredQueue
          /\ seeds' = seeds

C9_DrainBeforeScan == []C9_ScanState /\ [][C9_ScanStep]_vars

(* The scan is about to examine a coordinate after two flood fills, the     *)
(* coordinate being a foreground one that is labelled already.              *)
C9_Witness ==
    /\ pc = "inner"
    /\ j < size[2]
    /\ currentLabel = labelStart + 2
    /\ <<i, j>> \in Foreground
    /\ LabelOf(<<i, j>>) # NOLABEL

(* C10 (bounds): every coordinate handed to the pixel accessor or to the    *)
(* label grid lies in [0, rows) x [0, cols), and the label grid's index for *)
(* it lies in the vector.                                                   *)
C10_InBounds ==
    /\ imgReads \subseteq Coords(size)
    /\ lblTouched \subseteq Coords(size)
    /\ \A pos \in lblTouched :
          LabelIndex(pos[1], pos[2], size[2]) \in 0 .. Len(data) - 1

(* Neighbour candidates with a negative row and with a column beyond the    *)
(* grid have been passed over, and a valid one has been read.               *)
C10_Witness ==
    /\ pc = "for"
    /\ \E m \in 1 .. k - 1 : neighbour[m][1] < 0
    /\ \E m \in 1 .. k - 1 : neighbour[m][2] >= size[2]
    /\ \E m \in 1 .. k - 1 : neighbour[m] \in imgReads /\ neighbour[m] \in lblTouched

====
